---- MODULE Spec2Model ----
(***************************************************************************)
(* Model of the fetch / dedupe / persist pipeline of ai_cyberjobs:         *)
(*   pipeline/dedupe.py  load_known_ids, save_known_ids, compute_new_jobs  *)
(*   pipeline/store.py   to_dict, write_latest, write_csv,                 *)
(*                       write_history_snapshot, write_new_jobs,           *)
(*                       sync_docs_data                                    *)
(*   pipeline/fetch.py   fetch_category                                    *)
(*   cli.py              scrape                                            *)
(*                                                                         *)
(* Strings that the code compares (job ids, isoformat() texts) are         *)
(* sequences of character codes compared as Python compares str.           *)
(***************************************************************************)
EXTENDS Integers, Sequences, FiniteSets, TLC

\* ------------------------------------------------------------------ bounds
MaxPipelines == 2
MaxFetch == 2
MaxDay == 2
MaxJobs == 2
MaxCalls == 2
MaxLimit == 52
MaxExtra == 1
MaxThrottleLimit == 2
MaxTime == 64
MaxKeywords == 5
MaxDaysBack == 32
MaxText == 4
MaxStock == 53

\* --------------------------------------------------------------- constants
Categories == {"ai", "cyber"}

Id1 == <<1>>
Id2 == <<2>>
Id10 == <<1, 0>>
Ids == {Id1, Id2, Id10}

\* posted_at: an aware datetime, wall-clock hour and UTC offset in hours
Utc1 == [wall |-> 1, off |-> 0]
Plus2 == [wall |-> 2, off |-> 2]

JobA == [job_id |-> Id1, title |-> "A", posted_at |-> Utc1]
JobB == [job_id |-> Id2, title |-> "B", posted_at |-> Plus2]
JobD == [job_id |-> Id1, title |-> "D", posted_at |-> Utc1]
\* what the upstream search may return during a scrape run
Upstream == {JobA, JobB}
\* the jobs handed to the dedupe functions when they are called directly
AllJobs == {JobA, JobB, JobD}

RECURSIVE SeqsUpTo(_, _)
SeqsUpTo(S, n) ==
    IF n = 0 THEN {<<>>}
    ELSE LET shorter == SeqsUpTo(S, n - 1)
         IN shorter \cup {Append(s, x) : s \in shorter, x \in S}

\* -------------------------------------------------------------- Python str
\* str.__lt__: lexicographic comparison of two strings
RECURSIVE StrLess(_, _)
StrLess(a, b) ==
    IF a = <<>> THEN b # <<>>
    ELSE IF b = <<>> THEN FALSE
    ELSE IF Head(a) < Head(b) THEN TRUE
    ELSE IF Head(a) > Head(b) THEN FALSE
    ELSE StrLess(Tail(a), Tail(b))

\* datetime.isoformat(): fixed-width wall-clock text followed by the offset
isoformat(p) == <<p.wall, p.off>>

\* the instant an aware datetime denotes (what datetime.__lt__ compares)
Instant(p) == p.wall - p.off

\* ------------------------------------------------------------------- files
Absent == [kind |-> "absent", items |-> <<>>]
JsonArray(s) == [kind |-> "array", items |-> s]

RangeOf(s) == {s[i] : i \in 1..Len(s)}
IdsOf(js) == {js[i].job_id : i \in 1..Len(js)}

\* ---------------------------------------------------------------- dedupe.py
\* load_known_ids: json.load, then set(str(x) for x in data); any exception
\* gives set()
load_known_ids(f) ==
    CASE f.kind = "absent" -> {}
      [] f.kind = "array" -> RangeOf(f.items)
      [] f.kind = "object" -> RangeOf(f.items)
      [] f.kind = "string" -> {<<f.items[i]>> : i \in 1..Len(f.items)}
      [] OTHER -> {}

\* mutant: the ids ordered as numbers, shorter texts first
RECURSIVE sorted_numeric(_)
sorted_numeric(S) ==
    IF S = {} THEN <<>>
    ELSE LET m == CHOOSE x \in S : \A y \in S \ {x} :
                      \/ Len(x) < Len(y)
                      \/ Len(x) = Len(y) /\ StrLess(x, y)
         IN <<m>> \o sorted_numeric(S \ {m})

\* sorted(ids) of a set of str
RECURSIVE sorted(_)
sorted(S) ==
    IF S = {} THEN <<>>
    ELSE LET m == CHOOSE x \in S : \A y \in S \ {x} : StrLess(x, y)
         IN <<m>> \o sorted(S \ {m})

\* what save_known_ids leaves in the file once json.dump and close are done
dumped_ids(ids) == JsonArray(sorted(ids))

\* mutant: the loop without all_ids.add(j.job_id)
RECURSIVE compute_loop_noadd(_, _, _, _)
compute_loop_noadd(existing, js, new, ids) ==
    IF js = <<>> THEN <<new, ids>>
    ELSE LET j == Head(js)
         IN compute_loop_noadd(existing, Tail(js),
                               IF j.job_id \notin existing THEN Append(new, j) ELSE new,
                               ids)

\* the for loop of compute_new_jobs
RECURSIVE compute_loop(_, _, _, _)
compute_loop(existing, js, new, ids) ==
    IF js = <<>> THEN <<new, ids>>
    ELSE LET j == Head(js)
         IN compute_loop(existing, Tail(js),
                         IF j.job_id \notin existing THEN Append(new, j) ELSE new,
                         ids \cup {j.job_id})

\* mutant: all_ids starts empty instead of set(existing)
compute_new_jobs_forgets(f, js) ==
    LET existing == load_known_ids(f)
    IN compute_loop(existing, js, <<>>, {})

compute_new_jobs(f, js) ==
    LET existing == load_known_ids(f)
    IN compute_loop(existing, js, <<>>, existing)

\* ----------------------------------------------------------------- store.py
to_dict(j) == [job_id |-> j.job_id, title |-> j.title,
               posted_at |-> isoformat(j.posted_at)]

to_dicts(js) == [i \in 1..Len(js) |-> to_dict(js[i])]

\* the sort key of write_latest: (str(posted_at.isoformat()), job_id)
KeyLess(a, b) ==
    \/ StrLess(isoformat(a.posted_at), isoformat(b.posted_at))
    \/ /\ isoformat(a.posted_at) = isoformat(b.posted_at)
       /\ StrLess(a.job_id, b.job_id)

\* sorted(jobs, key=..., reverse=True): stable, equal keys keep input order
RECURSIVE insert_desc(_, _)
insert_desc(s, j) ==
    IF s = <<>> THEN <<j>>
    ELSE IF KeyLess(Head(s), j) THEN <<j>> \o s
    ELSE <<Head(s)>> \o insert_desc(Tail(s), j)

RECURSIVE jobs_sorted(_)
jobs_sorted(js) ==
    IF js = <<>> THEN <<>>
    ELSE insert_desc(jobs_sorted(SubSeq(js, 1, Len(js) - 1)), js[Len(js)])

\* mutant: sync_docs_data copies the file and writes no placeholder
sync_docs_data_copy_only(src) == src

\* sync_docs_data: what dst holds afterwards, given the latest file src
sync_docs_data(src) == IF src # Absent THEN src ELSE JsonArray(<<>>)

\* write_csv: the header row and one row per job
csv_rows(js) ==
    <<"header">> \o [i \in 1..Len(js) |->
        <<js[i].job_id, js[i].title, isoformat(js[i].posted_at)>>]

VARIABLES
    today,      \* datetime.utcnow().date() as write_history_snapshot last read it
    runs,       \* categories of the scrape runs so far (SpecDedupe: direct calls)
    pc,         \* position of the running scrape command
    cats,       \* scrape: cats
    idx,        \* scrape: index of c in cats
    dry_run,    \* scrape: dry_run
    creds,      \* settings.usajobs_email and settings.usajobs_api_key are set
    jobs,       \* scrape: jobs
    new_jobs,   \* scrape: new_jobs
    all_ids,    \* scrape: all_ids
    stateFile,  \* data/state/known_{category}_ids.json
    latest,     \* data/latest/{category}_jobs.json
    csv,        \* data/latest/{category}_jobs.csv
    newFile,    \* data/latest/new_{category}_jobs.json
    history,    \* data/history/{category}/{date}.json
    docs,       \* docs/data/{category}_jobs.json
    preRun,     \* history variable: the state files when the run started
    seen,       \* history variable: ids fetched by completed pipelines
    reported,   \* history variable: ids reported new by completed pipelines
    call,       \* last direct call of a dedupe function (SpecDedupe)
    has_keys,   \* fetch_category: usajobs_email and usajobs_api_key are non-empty
    q_limit,    \* fetch_category: limit (Query.limit)
    per_min,    \* _Throttle.per_min (settings.rate_limit_per_min)
    spc,        \* position of the running fetch_category call
    limit,      \* search: limit
    page,       \* search: page
    fetched,    \* search: fetched, the number of jobs yielded so far
    page_size,  \* search: page_size
    attempt,    \* tenacity: attempt number inside the current _search_page call
    fetches,    \* history variable: _search_page calls of this search so far
    lastCount,  \* history variable: items of the last response (-1: none yet)
    outcome,    \* history variable: how the last HTTP attempt ended
    now,        \* time.time() as sleep_if_needed last read it, in seconds
    last_ts,    \* _Throttle._last_ts
    stock,      \* items upstream holds in a stable order (-1: it answers freely)
    yielded,    \* history variable: upstream positions of the jobs yielded
    posted_state, \* data/state/discord_posted.json: posted job ids per category
    posts       \* history variable: how often each job was posted to Discord

vars == <<today, runs, pc, cats, idx, dry_run, creds, jobs, new_jobs, all_ids,
          stateFile, latest, csv, newFile, history, docs, preRun, seen,
          reported, call, has_keys, q_limit, per_min, spc, limit, page,
          fetched, page_size, attempt, fetches, lastCount, outcome, now, last_ts,
          stock, yielded, posted_state, posts>>

files == <<stateFile, latest, csv, newFile, history, docs>>
locals == <<cats, idx, dry_run, creds, jobs, new_jobs, all_ids>>
ghosts == <<preRun, seen, reported>>
paging == <<stock, yielded>>
net == <<has_keys, q_limit, per_min, spc, limit, page, fetched, page_size,
        attempt, fetches, lastCount, outcome, now, last_ts, paging>>
discord == <<posted_state, posts>>
pipeline == <<today, runs, pc, locals, files, ghosts, call, discord>>

\* nothing was posted to Discord and discord_posted.json does not exist
DiscordIdle ==
    /\ posted_state = [k \in Categories |-> {}]
    /\ posts = [k \in Categories |-> [id \in Ids |-> 0]]

\* usajobs.py: min(50, remaining)
PageSize == 50
\* usajobs.py: stop_after_attempt(5)
StopAfterAttempt == 5
\* usajobs.py: 60.0 / float(self.per_min)
SecondsPerMinute == 60

\* no fetch_category call is in progress; the clock stands more than a
\* minute after the epoch
NetIdle ==
    /\ has_keys = TRUE
    /\ q_limit = 1
    /\ per_min = 0
    /\ spc = "idle"
    /\ limit = 1
    /\ page = 1
    /\ fetched = 0
    /\ page_size = 0
    /\ attempt = 0
    /\ fetches = 0
    /\ lastCount = -1
    /\ outcome = "none"
    /\ now = SecondsPerMinute
    /\ last_ts = 0
    /\ stock = -1
    /\ yielded = <<>>

cur == cats[idx]

NoCall == [op |-> "none", cat |-> "ai", arg |-> {}, ret |-> {}, prev |-> Absent,
           rep |-> FALSE]

Init ==
    /\ today = 1
    /\ runs = 0
    /\ pc = "idle"
    /\ cats = <<"ai">>
    /\ idx = 1
    /\ dry_run = FALSE
    /\ creds = TRUE
    /\ jobs = <<>>
    /\ new_jobs = <<>>
    /\ all_ids = {}
    /\ stateFile = [k \in Categories |-> Absent]
    /\ latest = [k \in Categories |-> Absent]
    /\ csv = [k \in Categories |-> Absent]
    /\ newFile = [k \in Categories |-> Absent]
    /\ history = [k \in Categories |-> [d \in 1..MaxDay |-> Absent]]
    /\ docs = [k \in Categories |-> Absent]
    /\ preRun = [k \in Categories |-> Absent]
    /\ seen = [k \in Categories |-> {}]
    /\ reported = [k \in Categories |-> {}]
    /\ call = NoCall
    /\ NetIdle
    /\ DiscordIdle

\* ------------------------------------------------------------ cli.py scrape
\* the command has ended: its local variables are gone
Return ==
    /\ cats' = <<"ai">>
    /\ idx' = 1
    /\ dry_run' = FALSE
    /\ creds' = TRUE
    /\ jobs' = <<>>
    /\ new_jobs' = <<>>
    /\ all_ids' = {}
    /\ preRun' = [k \in Categories |-> Absent]

\* cats = ["ai", "cyber"] if category == "both" else [category]
cats_of(category) == IF category = "both" THEN <<"ai", "cyber">> ELSE <<category>>

\* scrape is invoked: Settings(), ensure_dirs, cats
StartRun ==
    /\ pc \in {"idle", "failed"}
    /\ \E category \in {"ai", "cyber", "both"}, d \in BOOLEAN, k \in BOOLEAN :
          /\ runs + Len(cats_of(category)) <= MaxPipelines
          /\ cats' = cats_of(category)
          /\ dry_run' = d
          /\ creds' = k
          /\ runs' = runs + Len(cats_of(category))
    /\ idx' = 1
    /\ jobs' = <<>>
    /\ new_jobs' = <<>>
    /\ all_ids' = {}
    /\ pc' = "fetch"
    /\ preRun' = stateFile
    /\ UNCHANGED <<today, files, seen, reported, call>>
    /\ UNCHANGED <<net, discord>>

\* fetch_category returns: [] without credentials, else the drained search
FetchOk ==
    /\ pc = "fetch"
    /\ \E js \in SeqsUpTo(Upstream, MaxFetch) :
          jobs' = IF creds THEN js ELSE <<>>
    /\ pc' = "compute"
    /\ UNCHANGED <<today, runs, cats, idx, dry_run, creds, new_jobs, all_ids,
                   files, ghosts, call>>
    /\ UNCHANGED <<net, discord>>

\* mutant: the failing fetch leaves the category's latest file truncated
FetchFail_truncates ==
    /\ pc = "fetch"
    /\ creds
    /\ pc' = "failed"
    /\ cats' = <<"ai">>
    /\ idx' = 1
    /\ dry_run' = FALSE
    /\ creds' = TRUE
    /\ jobs' = <<>>
    /\ new_jobs' = <<>>
    /\ all_ids' = {}
    /\ latest' = [latest EXCEPT ![cur] = JsonArray(<<>>)]
    /\ UNCHANGED <<today, runs, stateFile, csv, newFile, history, docs, ghosts, call>>
    /\ UNCHANGED <<net, discord>>

\* fetch_category raises (a page failed after all retries): scrape has no
\* handler, the exception ends the command
FetchFail ==
    /\ pc = "fetch"
    /\ creds
    /\ pc' = "failed"
    /\ cats' = <<"ai">>
    /\ idx' = 1
    /\ dry_run' = FALSE
    /\ creds' = TRUE
    /\ jobs' = <<>>
    /\ new_jobs' = <<>>
    /\ all_ids' = {}
    /\ UNCHANGED <<today, runs, files, ghosts, call>>
    /\ UNCHANGED <<net, discord>>

\* new_jobs, all_ids = compute_new_jobs(settings, c, jobs)
ComputeNewJobs ==
    /\ pc = "compute"
    /\ LET r == compute_new_jobs(stateFile[cur], jobs)
       IN /\ new_jobs' = r[1]
          /\ all_ids' = r[2]
    /\ pc' = "computed"
    /\ UNCHANGED <<today, runs, cats, idx, dry_run, creds, jobs, files, ghosts,
                   call>>
    /\ UNCHANGED <<net, discord>>

\* if dry_run: continue
DryRunSkip ==
    /\ pc = "computed"
    /\ dry_run
    /\ pc' = "done"
    /\ UNCHANGED <<today, runs, locals, files, ghosts, call>>
    /\ UNCHANGED <<net, discord>>

\* else branch of "if new_jobs": no writes
NoNewSkip ==
    /\ pc = "computed"
    /\ ~dry_run
    /\ new_jobs = <<>>
    /\ pc' = "done"
    /\ seen' = [seen EXCEPT ![cur] = @ \cup IdsOf(jobs)]
    /\ UNCHANGED <<today, runs, locals, files, preRun, reported, call>>
    /\ UNCHANGED <<net, discord>>

\* write_latest(settings, c, jobs), write_csv included
WriteLatest ==
    /\ pc = "computed"
    /\ ~dry_run
    /\ new_jobs # <<>>
    /\ latest' = [latest EXCEPT ![cur] = JsonArray(to_dicts(jobs_sorted(jobs)))]
    /\ csv' = [csv EXCEPT ![cur] = JsonArray(csv_rows(jobs_sorted(jobs)))]
    /\ pc' = "history"
    /\ UNCHANGED <<today, runs, locals, stateFile, newFile, history, docs,
                   ghosts, call>>
    /\ UNCHANGED <<net, discord>>

\* mutant: write_history_snapshot without the exists() test
WriteHistorySnapshot_overwrite ==
    /\ pc = "history"
    /\ \E date \in today..MaxDay :
          /\ today' = date
          /\ history' = [history EXCEPT ![cur][date] = JsonArray(to_dicts(jobs))]
    /\ pc' = "new"
    /\ UNCHANGED <<runs, locals, stateFile, latest, csv, newFile, docs, ghosts,
                   call>>
    /\ UNCHANGED <<net, discord>>

\* write_history_snapshot(settings, c, jobs); the date it reads from the
\* clock is the date of its previous call or a later one
WriteHistorySnapshot ==
    /\ pc = "history"
    /\ \E date \in today..MaxDay :
          /\ today' = date
          /\ history' = IF history[cur][date] = Absent
                        THEN [history EXCEPT ![cur][date] = JsonArray(to_dicts(jobs))]
                        ELSE history
    /\ pc' = "new"
    /\ UNCHANGED <<runs, locals, stateFile, latest, csv, newFile, docs, ghosts,
                   call>>
    /\ UNCHANGED <<net, discord>>

\* mutant: the new-jobs file is not written before the ids are saved
WriteNewJobs_skipped ==
    /\ pc = "new"
    /\ pc' = "save"
    /\ UNCHANGED <<today, runs, locals, files, ghosts, call>>
    /\ UNCHANGED <<net, discord>>

\* write_new_jobs(settings, c, new_jobs)
WriteNewJobs ==
    /\ pc = "new"
    /\ newFile' = [newFile EXCEPT ![cur] = JsonArray(to_dicts(new_jobs))]
    /\ pc' = "save"
    /\ UNCHANGED <<today, runs, locals, stateFile, latest, csv, history, docs,
                   ghosts, call>>
    /\ UNCHANGED <<net, discord>>

\* save_known_ids, first half: path.open("w") truncates the file
SaveOpen ==
    /\ pc = "save"
    /\ stateFile' = [stateFile EXCEPT ![cur] = [kind |-> "invalid", items |-> <<>>]]
    /\ pc' = "dump"
    /\ UNCHANGED <<today, runs, locals, latest, csv, newFile, history, docs,
                   ghosts, call>>
    /\ UNCHANGED <<net, discord>>

\* mutant: only the ids of this run's new jobs are saved
SaveDump_newonly ==
    /\ pc = "dump"
    /\ stateFile' = [stateFile EXCEPT ![cur] = dumped_ids(IdsOf(new_jobs))]
    /\ pc' = "sync"
    /\ UNCHANGED <<today, runs, locals, latest, csv, newFile, history, docs,
                   ghosts, call>>
    /\ UNCHANGED <<net, discord>>

\* save_known_ids, second half: json.dump(sorted(ids), f) and close
SaveDump ==
    /\ pc = "dump"
    /\ stateFile' = [stateFile EXCEPT ![cur] = dumped_ids(all_ids)]
    /\ pc' = "sync"
    /\ UNCHANGED <<today, runs, locals, latest, csv, newFile, history, docs,
                   ghosts, call>>
    /\ UNCHANGED <<net, discord>>

\* sync_docs_data(settings, c)
SyncDocsData ==
    /\ pc = "sync"
    /\ docs' = [docs EXCEPT ![cur] = sync_docs_data(latest[cur])]
    /\ pc' = "done"
    /\ seen' = [seen EXCEPT ![cur] = @ \cup IdsOf(jobs)]
    /\ reported' = [reported EXCEPT ![cur] = @ \cup IdsOf(new_jobs)]
    /\ UNCHANGED <<today, runs, locals, stateFile, latest, csv, newFile, history,
                   preRun, call>>
    /\ UNCHANGED <<net, discord>>

\* the for loop goes to the next category, or scrape returns
NextCategory ==
    /\ pc = "done"
    /\ IF idx < Len(cats)
       THEN /\ idx' = idx + 1
            /\ pc' = "fetch"
            /\ jobs' = <<>>
            /\ new_jobs' = <<>>
            /\ all_ids' = {}
            /\ UNCHANGED <<cats, dry_run, creds, preRun>>
       ELSE /\ pc' = "idle"
            /\ Return
    /\ UNCHANGED <<today, runs, files, seen, reported, call>>
    /\ UNCHANGED <<net, discord>>

\* the build-site command: sync_docs_data for "ai" and for "cyber"
BuildSite ==
    /\ pc \in {"idle", "failed"}
    /\ docs' = [k \in Categories |-> sync_docs_data(latest[k])]
    /\ pc' = "idle"
    /\ preRun' = [k \in Categories |-> Absent]
    /\ UNCHANGED <<today, runs, locals, stateFile, latest, csv, newFile, history,
                   seen, reported, call>>
    /\ UNCHANGED <<net, discord>>

Next ==
    \/ BuildSite
    \/ StartRun
    \/ FetchOk
    \/ FetchFail
    \/ ComputeNewJobs
    \/ DryRunSkip
    \/ NoNewSkip
    \/ WriteLatest
    \/ WriteHistorySnapshot
    \/ WriteNewJobs
    \/ SaveOpen
    \/ SaveDump
    \/ SyncDocsData
    \/ NextCategory

Spec == Init /\ [][Next]_vars

\* ------------------------------------------------------ process termination
Prefixes(s) == {SubSeq(s, 1, n) : n \in 0..Len(s)}

\* the process is killed in the middle of scrape.  Inside save_known_ids the
\* file was truncated by open("w") and holds whatever part of the text of
\* json.dump reached the disk, without the closing bracket.  The behaviour
\* ends there: the files are what the crash left on disk.
Crash ==
    /\ pc \notin {"idle", "failed", "crashed"}
    /\ pc' = "crashed"
    /\ IF pc = "dump"
       THEN \E part \in Prefixes(sorted(all_ids)) :
              stateFile' = [stateFile EXCEPT ![cur] =
                              [kind |-> "invalid", items |-> part]]
       ELSE stateFile' = stateFile
    /\ Return
    /\ UNCHANGED <<today, runs, latest, csv, newFile, history, docs, seen,
                   reported, call>>
    /\ UNCHANGED <<net, discord>>

NextCrash ==
    \/ Next
    \/ Crash

SpecCrash == Init /\ [][NextCrash]_vars

\* --------------------------------------- the dedupe functions called directly
\* contents the state file of a category may have when a function is called
StateContents ==
    {Absent,
     [kind |-> "unreadable", items |-> <<>>],
     [kind |-> "invalid", items |-> <<>>],
     [kind |-> "invalid", items |-> <<Id1>>],
     [kind |-> "number", items |-> <<>>],
     [kind |-> "string", items |-> <<>>],
     [kind |-> "string", items |-> <<1, 2>>],
     [kind |-> "object", items |-> <<>>],
     [kind |-> "object", items |-> <<Id1, Id2>>]}
    \cup {dumped_ids(K) : K \in SUBSET Ids}

InitDedupe ==
    /\ today = 1
    /\ runs = 0
    /\ pc = "idle"
    /\ cats = <<"ai">>
    /\ idx = 1
    /\ dry_run = FALSE
    /\ creds = TRUE
    /\ jobs = <<>>
    /\ new_jobs = <<>>
    /\ all_ids = {}
    /\ \E k \in Categories, f \in StateContents :
          stateFile = [[x \in Categories |-> Absent] EXCEPT ![k] = f]
    /\ latest = [k \in Categories |-> Absent]
    /\ csv = [k \in Categories |-> Absent]
    /\ newFile = [k \in Categories |-> Absent]
    /\ history = [k \in Categories |-> [d \in 1..MaxDay |-> Absent]]
    /\ docs = [k \in Categories |-> Absent]
    /\ preRun = [k \in Categories |-> Absent]
    /\ seen = [k \in Categories |-> {}]
    /\ reported = [k \in Categories |-> {}]
    /\ call = NoCall
    /\ NetIdle
    /\ DiscordIdle

\* load_known_ids(settings, k)
DLoad ==
    /\ runs < MaxCalls
    /\ runs' = runs + 1
    /\ \E k \in Categories :
          call' = [op |-> "load", cat |-> k, arg |-> {},
                   ret |-> load_known_ids(stateFile[k]), prev |-> stateFile[k],
                   rep |-> FALSE]
    /\ UNCHANGED <<today, pc, locals, files, ghosts>>
    /\ UNCHANGED <<net, discord>>

\* save_known_ids(settings, k, S), run to completion
DSave ==
    /\ runs < MaxCalls
    /\ runs' = runs + 1
    /\ \E k \in Categories, S \in SUBSET Ids :
          /\ stateFile[k].kind # "unreadable"
          /\ stateFile' = [stateFile EXCEPT ![k] = dumped_ids(S)]
          /\ call' = [op |-> "save", cat |-> k, arg |-> S, ret |-> {},
                      prev |-> stateFile[k], rep |-> FALSE]
    /\ UNCHANGED <<today, pc, locals, latest, csv, newFile, history, docs, ghosts>>
    /\ UNCHANGED <<net, discord>>

\* mutant: compute_new_jobs persists the ids it has just computed
DCompute_saving ==
    /\ runs < MaxCalls
    /\ runs' = runs + 1
    /\ \E k \in Categories, js \in SeqsUpTo(AllJobs, MaxJobs) :
          LET r == compute_new_jobs(stateFile[k], js)
          IN /\ jobs' = js
             /\ new_jobs' = r[1]
             /\ all_ids' = r[2]
             /\ stateFile' = [stateFile EXCEPT ![k] = dumped_ids(r[2])]
             /\ call' = [op |-> "compute", cat |-> k, arg |-> {}, ret |-> {},
                         prev |-> stateFile[k],
                         rep |-> call.op = "compute" /\ call.cat = k /\ jobs = js]
    /\ UNCHANGED <<today, pc, cats, idx, dry_run, creds, latest, csv, newFile,
                   history, docs, ghosts>>
    /\ UNCHANGED <<net, discord>>

\* compute_new_jobs(settings, k, js)
DCompute ==
    /\ runs < MaxCalls
    /\ runs' = runs + 1
    /\ \E k \in Categories, js \in SeqsUpTo(AllJobs, MaxJobs) :
          LET r == compute_new_jobs(stateFile[k], js)
          IN /\ jobs' = js
             /\ new_jobs' = r[1]
             /\ all_ids' = r[2]
             /\ call' = [op |-> "compute", cat |-> k, arg |-> {}, ret |-> {},
                         prev |-> stateFile[k],
                         rep |-> call.op = "compute" /\ call.cat = k /\ jobs = js]
    /\ UNCHANGED <<today, pc, cats, idx, dry_run, creds, files, ghosts>>
    /\ UNCHANGED <<net, discord>>

NextDedupe ==
    \/ DLoad
    \/ DSave
    \/ DCompute

SpecDedupe == InitDedupe /\ [][NextDedupe]_vars

\* ------------------------------------------- fetch.py and client/usajobs.py
max(a, b) == IF a >= b THEN a ELSE b
min(a, b) == IF a <= b THEN a ELSE b

\* the limits fetch_category is called with (scrape passes --limit, which
\* may be negative, or settings.results_limit)
Limits == (-1)..MaxLimit
\* settings.rate_limit_per_min: throttle off, the default 10, and 30
RateLimits == {0, 10, 30}

\* the number of items a response to a page request of the given size may
\* hold: none, one, a full page, more than was asked for
Items(size) == {0, 1, size, size + MaxExtra}

\* the number of items in the response to GET Page=p, ResultsPerPage=size:
\* an upstream that holds stock items in a stable order serves the items at
\* positions (p-1)*size+1 .. p*size that exist
Served(p, size) ==
    IF stock < 0 THEN Items(size)
    ELSE {max(0, min(size, stock - (p - 1) * size))}

\* the inputs of one fetch_category call; the scrape pipeline is at rest
InitFetch(limits, rates) ==
    /\ today = 1
    /\ runs = 0
    /\ pc = "idle"
    /\ cats = <<"ai">>
    /\ idx = 1
    /\ dry_run = FALSE
    /\ creds = TRUE
    /\ jobs = <<>>
    /\ new_jobs = <<>>
    /\ all_ids = {}
    /\ stateFile = [k \in Categories |-> Absent]
    /\ latest = [k \in Categories |-> Absent]
    /\ csv = [k \in Categories |-> Absent]
    /\ newFile = [k \in Categories |-> Absent]
    /\ history = [k \in Categories |-> [d \in 1..MaxDay |-> Absent]]
    /\ docs = [k \in Categories |-> Absent]
    /\ preRun = [k \in Categories |-> Absent]
    /\ seen = [k \in Categories |-> {}]
    /\ reported = [k \in Categories |-> {}]
    /\ call = NoCall
    /\ DiscordIdle
    /\ has_keys \in BOOLEAN
    /\ q_limit \in limits
    /\ per_min \in rates
    /\ spc = "idle"
    /\ limit = 1
    /\ page = 1
    /\ fetched = 0
    /\ page_size = 0
    /\ attempt = 0
    /\ fetches = 0
    /\ lastCount = -1
    /\ outcome = "none"
    /\ now = SecondsPerMinute
    /\ last_ts = 0
    /\ stock = -1
    /\ yielded = <<>>

InitSearch == InitFetch(Limits, {r \in RateLimits : r <= 0})

InitThrottle == InitFetch(1..MaxThrottleLimit, {r \in RateLimits : r > 0})

\* a search with credentials against an upstream that holds stock items
InitPaging ==
    /\ today = 1
    /\ runs = 0
    /\ pc = "idle"
    /\ cats = <<"ai">>
    /\ idx = 1
    /\ dry_run = FALSE
    /\ creds = TRUE
    /\ jobs = <<>>
    /\ new_jobs = <<>>
    /\ all_ids = {}
    /\ stateFile = [k \in Categories |-> Absent]
    /\ latest = [k \in Categories |-> Absent]
    /\ csv = [k \in Categories |-> Absent]
    /\ newFile = [k \in Categories |-> Absent]
    /\ history = [k \in Categories |-> [d \in 1..MaxDay |-> Absent]]
    /\ docs = [k \in Categories |-> Absent]
    /\ preRun = [k \in Categories |-> Absent]
    /\ seen = [k \in Categories |-> {}]
    /\ reported = [k \in Categories |-> {}]
    /\ call = NoCall
    /\ DiscordIdle
    /\ has_keys = TRUE
    /\ q_limit \in 1..MaxLimit
    /\ per_min = 0
    /\ spc = "idle"
    /\ limit = 1
    /\ page = 1
    /\ fetched = 0
    /\ page_size = 0
    /\ attempt = 0
    /\ fetches = 0
    /\ lastCount = -1
    /\ outcome = "none"
    /\ now = SecondsPerMinute
    /\ last_ts = 0
    /\ stock \in 0..MaxStock
    /\ yielded = <<>>

\* mutant: fetch_category goes to the client whatever the settings hold
FetchCategory_nocheck ==
    /\ spc = "idle"
    /\ spc' = "loop"
    /\ limit' = max(1, q_limit)
    /\ page' = 1
    /\ fetched' = 0
    /\ last_ts' = 0
    /\ UNCHANGED <<has_keys, q_limit, per_min, page_size, attempt, fetches,
                   lastCount, outcome, now, paging, pipeline>>

\* fetch_category up to the first step of search: the soft fail on missing
\* credentials, else a new client (a new _Throttle) and search's first lines
FetchCategory ==
    /\ spc = "idle"
    /\ IF ~has_keys
       THEN /\ spc' = "returned"
            /\ UNCHANGED <<limit, page, fetched, last_ts>>
       ELSE /\ spc' = "loop"
            /\ limit' = max(1, q_limit)
            /\ page' = 1
            /\ fetched' = 0
            /\ last_ts' = 0
    /\ UNCHANGED <<has_keys, q_limit, per_min, page_size, attempt, fetches,
                   lastCount, outcome, now, paging, pipeline>>

\* mutant: every page is asked for with min(50, limit) items
SearchLoop_fullsize ==
    /\ spc = "loop"
    /\ IF fetched < limit
       THEN /\ page_size' = min(PageSize, limit)
            /\ attempt' = 0
            /\ fetches' = fetches + 1
            /\ spc' = "throttle"
       ELSE /\ spc' = "returned"
            /\ UNCHANGED <<page_size, attempt, fetches>>
    /\ UNCHANGED <<has_keys, q_limit, per_min, limit, page, fetched, lastCount,
                   outcome, now, last_ts, paging, pipeline>>

\* search: the while test, and the call of _search_page for the next page;
\* when the test fails the generator ends and fetch_category returns the list
SearchLoop ==
    /\ spc = "loop"
    /\ IF fetched < limit
       THEN /\ page_size' = min(PageSize, limit - fetched)
            /\ attempt' = 0
            /\ fetches' = fetches + 1
            /\ spc' = "throttle"
       ELSE /\ spc' = "returned"
            /\ UNCHANGED <<page_size, attempt, fetches>>
    /\ UNCHANGED <<has_keys, q_limit, per_min, limit, page, fetched, lastCount,
                   outcome, now, last_ts, paging, pipeline>>

\* sleep_if_needed read the clock at t1: the first clock value at which it
\* can have returned, time.sleep(min_interval - delta) sleeping no less than
\* asked
Wake(t1) ==
    IF per_min * (t1 - last_ts) < SecondsPerMinute
    THEN last_ts + ((SecondsPerMinute + per_min - 1) \div per_min)
    ELSE t1

\* mutant: sleep_if_needed does not record the time it returned at
SleepIfNeeded_stale ==
    /\ spc = "throttle"
    /\ attempt' = attempt + 1
    /\ IF per_min <= 0
       THEN UNCHANGED <<now, last_ts>>
       ELSE \E t1 \in now..max(now, MaxTime) :
              \E t2 \in Wake(t1)..max(Wake(t1), MaxTime) :
                 /\ now' = t2
                 /\ UNCHANGED last_ts
    /\ spc' = "request"
    /\ UNCHANGED <<has_keys, q_limit, per_min, limit, page, fetched, page_size,
                   fetches, lastCount, outcome, paging, pipeline>>

\* an attempt of _search_page begins: sleep_if_needed. The clock is read
\* twice, never going back; the time that passed since the last read (the
\* previous request, the wait before a retry) shows in the first read
SleepIfNeeded ==
    /\ spc = "throttle"
    /\ attempt' = attempt + 1
    /\ IF per_min <= 0
       THEN UNCHANGED <<now, last_ts>>
       ELSE \E t1 \in now..max(now, MaxTime) :
              \E t2 \in Wake(t1)..max(Wake(t1), MaxTime) :
                 /\ now' = t2
                 /\ last_ts' = t2
    /\ spc' = "request"
    /\ UNCHANGED <<has_keys, q_limit, per_min, limit, page, fetched, page_size,
                   fetches, lastCount, outcome, paging, pipeline>>

\* the GET succeeded: _search_page returns the payload and search goes
\* through its items, yielding until fetched reaches limit, then page += 1
Response ==
    /\ spc = "request"
    /\ \E n \in Served(page, page_size) :
          /\ lastCount' = n
          /\ IF n = 0
             THEN /\ spc' = "returned"
                  /\ UNCHANGED <<fetched, page, yielded>>
             ELSE /\ fetched' = min(limit, fetched + n)
                  /\ yielded' =
                       IF stock < 0 THEN yielded
                       ELSE yielded \o [i \in 1..(fetched' - fetched) |->
                                           (page - 1) * page_size + i]
                  /\ page' = page + 1
                  /\ spc' = "loop"
    /\ outcome' = "ok"
    /\ UNCHANGED <<has_keys, q_limit, per_min, limit, page_size, attempt,
                   fetches, now, last_ts, stock, pipeline>>

\* mutant: tenacity retries after the last attempt too
RequestException_again ==
    /\ spc = "request"
    /\ outcome' = "error"
    /\ spc' = IF attempt <= StopAfterAttempt THEN "throttle" ELSE "raised"
    /\ UNCHANGED <<has_keys, q_limit, per_min, limit, page, fetched, page_size,
                   attempt, fetches, lastCount, now, last_ts, paging, pipeline>>

\* mutant: after the last attempt the page is started over
RequestException_restart ==
    /\ spc = "request"
    /\ outcome' = "error"
    /\ spc' = "throttle"
    /\ attempt' = IF attempt < StopAfterAttempt THEN attempt ELSE 0
    /\ UNCHANGED <<has_keys, q_limit, per_min, limit, page, fetched, page_size,
                   fetches, lastCount, now, last_ts, paging, pipeline>>

\* the GET or raise_for_status raised a requests.RequestException: tenacity
\* calls _search_page again, or re-raises after the last attempt, and the
\* exception leaves search and fetch_category
RequestException ==
    /\ spc = "request"
    /\ outcome' = "error"
    /\ spc' = IF attempt < StopAfterAttempt THEN "throttle" ELSE "raised"
    /\ UNCHANGED <<has_keys, q_limit, per_min, limit, page, fetched, page_size,
                   attempt, fetches, lastCount, now, last_ts, paging, pipeline>>

NextSearch ==
    \/ FetchCategory
    \/ SearchLoop
    \/ SleepIfNeeded
    \/ Response
    \/ RequestException

SpecSearch == InitSearch /\ [][NextSearch]_vars

\* list(client.search(q)) runs to its end: the call is never suspended for ever
FairSearch == SpecSearch /\ WF_vars(NextSearch)

SpecThrottle == InitThrottle /\ [][NextSearch]_vars

SpecPaging == InitPaging /\ [][NextSearch]_vars

\* ------------------------------------------- usajobs.py: the query builder
\* str.strip() and str.split() take these characters for whitespace
IsSpace(c) == c \in {" ", "\t"}

RECURSIVE lstrip(_)
lstrip(k) == IF k # <<>> /\ IsSpace(Head(k)) THEN lstrip(Tail(k)) ELSE k

RECURSIVE rstrip(_)
rstrip(k) ==
    IF k # <<>> /\ IsSpace(k[Len(k)]) THEN rstrip(SubSeq(k, 1, Len(k) - 1)) ELSE k

\* k.strip()
strip(k) == rstrip(lstrip(k))

\* " " in t
HasBlank(t) == \E i \in 1..Len(t) : t[i] = " "

\* f'"{t}"'
quoted(t) == <<"\"">> \o t \o <<"\"">>

\* render(t), and the same expression for primary
render(t) == IF HasBlank(t) THEN quoted(t) ELSE t

\* " ".join(ts)
RECURSIVE join(_)
join(ts) ==
    IF ts = <<>> THEN <<>>
    ELSE IF Len(ts) = 1 THEN ts[1]
    ELSE ts[1] \o <<" ">> \o join(Tail(ts))

build_keyword_query(keywords) ==
    LET kws == SelectSeq([i \in 1..Len(keywords) |-> strip(keywords[i])],
                         LAMBDA k : k # <<>>)
    IN  IF kws = <<>> THEN <<>>
        ELSE IF Len(kws) > 4 THEN render(kws[1])
        ELSE join([i \in 1..Len(kws) |-> render(kws[i])])

\* keywords: a word, a phrase, a phrase written with a tab, a padded word,
\* an empty and a blank keyword
Keywords == {<<"a">>, <<"b">>, <<"a", " ", "b">>, <<"a", "\t", "b">>,
             <<" ", "a">>, <<>>}

\* a direct call of build_keyword_query
CallBuildKeywordQuery ==
    /\ call.op = "none"
    /\ \E keywords \in SeqsUpTo(Keywords, MaxKeywords) :
          call' = [op |-> "build_keyword_query", cat |-> "ai", arg |-> keywords,
                   ret |-> build_keyword_query(keywords), prev |-> Absent,
                   rep |-> FALSE]
    /\ UNCHANGED <<today, runs, pc, locals, files, ghosts, net, discord>>

\* mutant: three days back fall into the week bucket
normalize_days_strict(days) ==
    IF days <= 1 THEN 1
    ELSE IF days < 3 THEN 3
    ELSE IF days <= 7 THEN 7
    ELSE 30

normalize_days(days) ==
    IF days <= 1 THEN 1
    ELSE IF days <= 3 THEN 3
    ELSE IF days <= 7 THEN 7
    ELSE 30

\* a direct call of normalize_days
CallNormalizeDays ==
    /\ call.op = "none"
    /\ \E days \in (-2)..MaxDaysBack :
          call' = [op |-> "normalize_days", cat |-> "ai", arg |-> days,
                   ret |-> normalize_days(days), prev |-> Absent, rep |-> FALSE]
    /\ UNCHANGED <<today, runs, pc, locals, files, ghosts, net, discord>>

\* --------------------------------------------------------- normalize.py
\* text[:limit] for limit >= 0
Slice(text, n) == SubSeq(text, 1, min(n, Len(text)))

\* s.rsplit(" ", 1)[0]: what stands before the last " " of s, or s itself
rsplit_head(s) ==
    LET blanks == {i \in 1..Len(s) : s[i] = " "}
    IN  IF blanks = {} THEN s
        ELSE SubSeq(s, 1, (CHOOSE i \in blanks : \A j \in blanks : j <= i) - 1)

\* the ellipsis character
Ellipsis == <<"...">>

_trim(text, lim) ==
    IF Len(text) <= lim THEN text ELSE rsplit_head(Slice(text, lim)) \o Ellipsis

\* the characters of the texts: two letters, a blank and a tab
Chars == {"a", "b", " ", "\t"}

\* a direct call of _trim
CallTrim ==
    /\ call.op = "none"
    /\ \E text \in SeqsUpTo(Chars, MaxText), lim \in 0..MaxText :
          call' = [op |-> "_trim", cat |-> "ai", arg |-> <<text, lim>>,
                   ret |-> _trim(text, lim), prev |-> Absent, rep |-> FALSE]
    /\ UNCHANGED <<today, runs, pc, locals, files, ghosts, net, discord>>

\* values of the upstream JSON: a key that is absent, null, a string (its
\* characters) or a list (its entries)
Missing == [t |-> "missing", v |-> <<>>]
Null == [t |-> "null", v |-> <<>>]
Str(s) == [t |-> "str", v |-> s]
List(l) == [t |-> "list", v |-> l]

\* bool(x); None stands for an absent key after dict.get
Truthy(x) == x.t \notin {"missing", "null"} /\ x.v # <<>>

\* x or y
Or(x, y) == IF Truthy(x) THEN x ELSE y

\* "Various", "https://www.usajobs.gov", and upstream texts
Various == <<"V">>
BaseUrl == <<"w">>
Uri1 == <<"u", "1">>
Uri2 == <<"u", "2">>
DateText == <<"1">>

\* _trim's default limit
TrimLimit == 600

\* the raw records: MatchedObjectId, and under MatchedObjectDescriptor (desc:
\* absent, null or a dict) PositionTitle, OrganizationName, PositionLocation
\* (the LocationName of each entry), ApplyURI, PositionURI, UserArea (area:
\* absent, null, without Details, Details null, Details without JobSummary,
\* with JobSummary) and PublicationStartDate
Described ==
    [id : {Missing, Null, Str(<<>>), Str(Id1)},
     desc : {"dict"},
     title : {Missing, Null, Str(<<>>), Str(<<"T">>)},
     org : {Missing, Str(<<"O">>)},
     locs : {Missing, Null, List(<<>>), List(<<<<>>, <<"X">>>>),
             List(<<<<"Y">>, <<"X">>>>)},
     apply : {Missing, Null, List(<<>>), List(<<<<>>>>), List(<<Uri1>>)},
     posuri : {Missing, Str(Uri2)},
     area : {"missing", "null", "empty", "details_null", "no_summary", "summary"},
     posted : {Missing, Null, Str(<<>>), Str(<<"x">>), Str(DateText)}]

Undescribed ==
    [id : {Missing, Str(Id1)},
     desc : {"missing", "null"},
     title : {Missing},
     org : {Missing},
     locs : {Missing},
     apply : {Missing},
     posuri : {Missing},
     area : {"missing"},
     posted : {Missing}]

RawItems == Described \cup Undescribed

\* [l.get("LocationName", "") for l in (pos.get("PositionLocation", []) or [])]
LocationNames(pos) == IF Truthy(pos.locs) THEN pos.locs.v ELSE <<>>

\* pos.get("ApplyURI", [None])[0] or pos.get("PositionURI") or
\* pos.get("ApplyURL") or "https://www.usajobs.gov"
UrlOf(pos) ==
    LET first == IF pos.apply.t = "list" THEN Str(pos.apply.v[1]) ELSE Null
    IN  Or(first, Or(pos.posuri, Str(BaseUrl))).v

\* datetime.fromisoformat(str(posted_raw).replace("Z", "+00:00")), or
\* datetime.utcnow() when it raises
PostedAt(pos, utcnow) ==
    IF pos.posted.t = "str" /\ pos.posted.v = DateText THEN Utc1 ELSE utcnow

\* the statements of map_usajobs_item outside a try block that raise:
\* pos.get on None, [0] on None or on an empty list, .get on a null
\* UserArea or on null Details
Raises(item) ==
    \/ item.desc = "null"
    \/ item.apply.t = "null"
    \/ item.apply.t = "list" /\ item.apply.v = <<>>
    \/ item.area \in {"null", "details_null"}

NoJob == [job_id |-> <<>>, title |-> <<>>, organization |-> <<>>,
          locations |-> <<>>, description |-> <<>>, url |-> <<>>,
          posted_at |-> Utc1]

\* mutant: no sentinel location
map_usajobs_item_nosentinel(item, utcnow) ==
    IF Raises(item) THEN [raised |-> TRUE, job |-> NoJob]
    ELSE [raised |-> FALSE,
          job |-> [job_id |-> Or(item.id, Str(<<>>)).v,
                   title |-> Or(item.title, Str(<<>>)).v,
                   organization |-> Or(item.org, Str(<<>>)).v,
                   locations |-> SelectSeq(LocationNames(item), LAMBDA l : l # <<>>),
                   description |->
                       _trim(strip(IF item.area = "summary" THEN <<"S">> ELSE <<>>),
                             TrimLimit),
                   url |-> UrlOf(item),
                   posted_at |-> PostedAt(item, utcnow)]]

\* map_usajobs_item; the texts hold no HTML, so that _strip_html only strips
map_usajobs_item(item, utcnow) ==
    IF Raises(item) THEN [raised |-> TRUE, job |-> NoJob]
    ELSE [raised |-> FALSE,
          job |-> [job_id |-> Or(item.id, Str(<<>>)).v,
                   title |-> Or(item.title, Str(<<>>)).v,
                   organization |-> Or(item.org, Str(<<>>)).v,
                   locations |->
                       LET named == SelectSeq(LocationNames(item), LAMBDA l : l # <<>>)
                       IN  IF named # <<>> THEN named ELSE <<Various>>,
                   description |->
                       _trim(strip(IF item.area = "summary" THEN <<"S">> ELSE <<>>),
                             TrimLimit),
                   url |-> UrlOf(item),
                   posted_at |-> PostedAt(item, utcnow)]]

\* a direct call of map_usajobs_item, at some time of the clock
CallMapItem ==
    /\ call.op = "none"
    /\ \E item \in RawItems, utcnow \in {Plus2} :
          call' = [op |-> "map_usajobs_item", cat |-> "ai", arg |-> item,
                   ret |-> map_usajobs_item(item, utcnow), prev |-> utcnow,
                   rep |-> FALSE]
    /\ UNCHANGED <<today, runs, pc, locals, files, ghosts, net, discord>>

NextPure ==
    \/ CallBuildKeywordQuery
    \/ CallNormalizeDays
    \/ CallTrim
    \/ CallMapItem

SpecPure == Init /\ [][NextPure]_vars

\* ------------------------------------------------ notify/discord_detailed.py
\* send_discord_bot_detailed_jobs: max_jobs
MaxJobsPerPost == 10

\* Job(**job_data): posted_at parsed back from its isoformat() text
from_dict(d) == [job_id |-> d.job_id, title |-> d.title,
                 posted_at |-> [wall |-> d.posted_at[1], off |-> d.posted_at[2]]]

\* new_jobs.sort(key=posted_at, reverse=True): stable, by instant
RECURSIVE insert_recent(_, _)
insert_recent(s, j) ==
    IF s = <<>> THEN <<j>>
    ELSE IF Instant(Head(s).posted_at) < Instant(j.posted_at) THEN <<j>> \o s
    ELSE <<Head(s)>> \o insert_recent(Tail(s), j)

RECURSIVE sort_recent(_)
sort_recent(js) ==
    IF js = <<>> THEN <<>>
    ELSE insert_recent(sort_recent(SubSeq(js, 1, Len(js) - 1)), js[Len(js)])

\* get_new_jobs_for_category: the jobs of the latest file that are not in
\* posted_ids, most recent first
get_new_jobs_for_category(f, posted_ids) ==
    IF f.kind # "array" THEN <<>>
    ELSE sort_recent(SelectSeq([i \in 1..Len(f.items) |-> from_dict(f.items[i])],
                               LAMBDA j : j.job_id \notin posted_ids))

\* send_discord_bot_detailed_jobs(new, ...) whose post number fail raises
\* (0: the summary message, i: the i-th job, beyond: none): the number of
\* jobs posted before it returns
PostedCount(new, fail) == min(fail - 1, min(Len(new), MaxJobsPerPost))

\* its return value
PostedAll(new, fail) == fail > min(Len(new), MaxJobsPerPost)

\* one category of send_detailed_discord_notifications: the posted ids as
\* the run leaves them, and the posts made
send_category(k, fail) ==
    LET new == get_new_jobs_for_category(latest[k], posted_state[k])
        n == IF new = <<>> THEN 0 ELSE max(0, PostedCount(new, fail))
    IN  [marked |-> posted_state[k] \cup
                      (IF new # <<>> /\ PostedAll(new, fail) THEN IdsOf(new) ELSE {}),
         counts |-> [id \in Ids |->
                       posts[k][id] + Cardinality({i \in 1..n : new[i].job_id = id})]]

\* the latest files a scrape leaves for jobs with distinct ids
LatestContents ==
    {Absent} \cup
    {JsonArray(to_dicts(jobs_sorted(js))) :
        js \in {t \in SeqsUpTo(Upstream, MaxFetch) : Cardinality(IdsOf(t)) = Len(t)}}

InitDiscord ==
    /\ today = 1
    /\ runs = 0
    /\ pc = "idle"
    /\ cats = <<"ai">>
    /\ idx = 1
    /\ dry_run = FALSE
    /\ creds = TRUE
    /\ jobs = <<>>
    /\ new_jobs = <<>>
    /\ all_ids = {}
    /\ stateFile = [k \in Categories |-> Absent]
    /\ latest \in [Categories -> LatestContents]
    /\ csv = [k \in Categories |-> Absent]
    /\ newFile = [k \in Categories |-> Absent]
    /\ history = [k \in Categories |-> [d \in 1..MaxDay |-> Absent]]
    /\ docs = [k \in Categories |-> Absent]
    /\ preRun = [k \in Categories |-> Absent]
    /\ seen = [k \in Categories |-> {}]
    /\ reported = [k \in Categories |-> {}]
    /\ call = NoCall
    /\ NetIdle
    /\ DiscordIdle

\* the send-detailed-discord command with the bot configured: both
\* categories, then save_posted_jobs_state
SendDetailedDiscord ==
    /\ runs < MaxCalls
    /\ runs' = runs + 1
    /\ \E fail \in [Categories -> 0..(MaxFetch + 1)] :
          /\ posted_state' = [k \in Categories |-> send_category(k, fail[k]).marked]
          /\ posts' = [k \in Categories |-> send_category(k, fail[k]).counts]
    /\ UNCHANGED <<today, pc, locals, files, ghosts, call, net>>

NextDiscord == SendDetailedDiscord

SpecDiscord == InitDiscord /\ [][NextDiscord]_vars

\* ------------------------------------------------------------------ claims
\* the ids a state file holds as a complete JSON array
PersistedIds(f) == IF f.kind = "array" THEN RangeOf(f.items) ELSE {}

Count(s, x) == Cardinality({i \in 1..Len(s) : s[i] = x})
SameBag(s, t) ==
    /\ Len(s) = Len(t)
    /\ \A x \in RangeOf(s) \cup RangeOf(t) : Count(s, x) = Count(t, x)

Perms(s) == {[i \in 1..Len(s) |-> s[q[i]]] : q \in Permutations(1..Len(s))}

\* C1: for every persisted known-id set K and every input list, the call
\* compute_new_jobs returns as new_jobs the input list filtered to the jobs
\* whose job_id is not in K, in input order, and as updated ids K united with
\* the job_id of every input job.
C1_ComputeNewJobs ==
    (call.op = "compute" /\ call.prev.kind = "array") =>
        LET K == RangeOf(call.prev.items)
            Unknown(j) == j.job_id \notin K
        IN /\ new_jobs = SelectSeq(jobs, Unknown)
           /\ all_ids = K \cup {jobs[i].job_id : i \in 1..Len(jobs)}

\* C1 witness: a call whose input holds a known and an unknown job while K
\* also holds an id that is not in the input
C1_Witness ==
    /\ call.op = "compute"
    /\ call.prev.kind = "array"
    /\ RangeOf(call.prev.items) \cap IdsOf(jobs) # {}
    /\ IdsOf(jobs) \ RangeOf(call.prev.items) # {}
    /\ RangeOf(call.prev.items) \ IdsOf(jobs) # {}

\* C2: across completed non-dry-run pipelines of one category, a job_id that
\* was in the new_jobs of an earlier pipeline is not in the new_jobs of a
\* later one, and a later pipeline reports as new exactly the fetched ids
\* that no earlier pipeline fetched.
C2_NewOnlyOnce ==
    (pc = "computed" /\ ~dry_run) =>
        /\ IdsOf(new_jobs) \cap reported[cur] = {}
        /\ IdsOf(new_jobs) = IdsOf(jobs) \ seen[cur]

\* C2 witness: a later run that fetches an id reported earlier together with
\* an id never fetched before
C2_Witness ==
    /\ pc = "computed"
    /\ ~dry_run
    /\ reported[cur] \cap IdsOf(jobs) # {}
    /\ new_jobs # <<>>

\* C3: the persisted known-id set grows monotonically: when a scrape run has
\* ended, the ids in each category's state file are a superset of the ids
\* that were in it when the run started.
C3_KnownIdsGrow ==
    [][(pc \notin {"idle", "failed"} /\ pc' \in {"idle", "failed"}) =>
          \A k \in Categories :
              PersistedIds(preRun[k]) \subseteq PersistedIds(stateFile'[k])]_vars

\* C3 witness: a run is about to end that has added ids to a non-empty
\* known-id set
C3_Witness ==
    /\ pc = "done"
    /\ idx = Len(cats)
    /\ \E k \in Categories :
          /\ PersistedIds(preRun[k]) # {}
          /\ PersistedIds(preRun[k]) # PersistedIds(stateFile[k])

\* C4: a call of compute_new_jobs creates or modifies no file, and a call
\* that repeats the previous call (same category, same jobs, no save in
\* between) returns the same new_jobs and updated ids.
C4_ComputePure ==
    [][call'.op = "compute" =>
          /\ files' = files
          /\ (call.op = "compute" /\ call.cat = call'.cat /\ jobs' = jobs) =>
                 (new_jobs' = new_jobs /\ all_ids' = all_ids)]_vars

\* C4 witness: compute_new_jobs was called twice in a row with the same jobs
\* and found new jobs
C4_Witness ==
    /\ call.op = "compute"
    /\ call.rep
    /\ new_jobs # <<>>

\* C5: load_known_ids returns the empty set whenever the state file is
\* absent, unreadable or corrupt, corrupt being any content other than a
\* JSON array of ids.
C5_LoadCorruptIsEmpty ==
    (call.op = "load" /\ call.prev.kind # "array") => call.ret = {}

\* C6: save_known_ids(category, S) fully overwrites the state file: the file
\* then holds exactly the elements of S as a sorted sequence, nothing of the
\* previous content, and load_known_ids returns S.
C6_SaveOverwrites ==
    call.op = "save" =>
        LET f == stateFile[call.cat]
        IN /\ f.kind = "array"
           /\ Len(f.items) = Cardinality(call.arg)
           /\ RangeOf(f.items) = call.arg
           /\ \A i \in 1..(Len(f.items) - 1) : StrLess(f.items[i], f.items[i + 1])
           /\ load_known_ids(f) = call.arg

\* C6 witness: a save of two or more ids over a file that held ids which are
\* not in the saved set
C6_Witness ==
    /\ call.op = "save"
    /\ Cardinality(call.arg) >= 2
    /\ PersistedIds(call.prev) \ call.arg # {}

\* C7: save_known_ids replaces the state file atomically: when the process
\* crashes, the state file of the category being processed holds either the
\* complete previous id set or the complete new id set.
C7_SaveAtomic ==
    [][pc' = "crashed" =>
          stateFile'[cur] \in {preRun[cur], dumped_ids(all_ids)}]_vars

\* C8: after every completed non-dry-run pipeline of a category the latest
\* file holds that run's full fetched result set and the new file holds
\* exactly that run's new jobs, an empty list when there are none.
C8_SnapshotsOverwritten ==
    (pc = "done" /\ ~dry_run) =>
        /\ latest[cur].kind = "array"
        /\ SameBag(latest[cur].items, to_dicts(jobs))
        /\ newFile[cur] = JsonArray(to_dicts(new_jobs))

\* posted_at descending, equal posted_at by job_id descending
OrderedDesc(js) ==
    \A i, j \in 1..Len(js) :
        i < j =>
            \/ Instant(js[i].posted_at) > Instant(js[j].posted_at)
            \/ /\ Instant(js[i].posted_at) = Instant(js[j].posted_at)
               /\ ~StrLess(js[i].job_id, js[j].job_id)

\* C9: write_latest writes all the input jobs, none dropped and none added,
\* ordered by posted_at descending and by job_id descending among equal
\* posted_at, and the result does not depend on the order of the input.
C9_LatestOrdered ==
    pc = "history" =>
        /\ \E w \in Perms(jobs) :
              /\ latest[cur] = JsonArray(to_dicts(w))
              /\ OrderedDesc(w)
        /\ \A w \in Perms(jobs) :
              JsonArray(to_dicts(jobs_sorted(w))) = latest[cur]

\* C10: history snapshots are write-once per category and calendar day: once
\* the dated file exists no later step changes its content.
C10_HistoryWriteOnce ==
    [][\A k \in Categories, d \in 1..MaxDay :
          history[k][d] # Absent => history'[k][d] = history[k][d]]_vars

\* C10 witness: write_history_snapshot has just returned on a day whose file
\* holds another job list than the one it was called with
C10_Witness ==
    /\ pc = "new"
    /\ history[cur][today] # Absent
    /\ history[cur][today] # JsonArray(to_dicts(jobs))

\* C11: when write_history_snapshot creates the dated file, the content it
\* writes is the content write_latest writes for the same job list: the same
\* job records in the same order.
C11_HistorySameAsLatest ==
    [][(pc = "history" /\ pc' = "new" /\ history[cur][today'] = Absent) =>
          history'[cur][today'] = latest'[cur]]_vars

\* what sync_docs_data(k) must leave behind
Synced(k) ==
    /\ latest' = latest
    /\ docs'[k] = IF latest[k].kind = "absent" THEN JsonArray(<<>>) ELSE latest[k]

\* C12: sync_docs_data(category) makes the published file a verbatim copy of
\* the category's latest file when that file exists, and an empty JSON list
\* when it does not, and never modifies the latest file.
C12_SyncDocs ==
    [][/\ (pc = "sync" /\ pc' = "done") => Synced(cur)
       /\ (pc \in {"idle", "failed"} /\ pc' = "idle") =>
              \A k \in Categories : Synced(k)]_vars

\* C12 witness: after build-site one category's published file is the copy
\* of its latest file and the other one, without a latest file, is []
C12_Witness ==
    /\ pc = "idle"
    /\ \E k \in Categories : latest[k] # Absent /\ docs[k] = latest[k]
    /\ \E k \in Categories : latest[k] = Absent /\ docs[k] = JsonArray(<<>>)

\* C13: a fetch of one category that fails after all retries does not
\* prevent the other categories' pipelines: when the failed category is not
\* the last of the run, the run goes on with the fetch of the next one.
C13_FailureIsolated ==
    [][(pc = "fetch" /\ pc' # "compute" /\ idx < Len(cats)) =>
          (pc' = "fetch" /\ idx' = idx + 1)]_vars

\* C14: a scrape run whose fetch of a category fails changes no file from
\* the failure on: the failing step changes none, files written earlier in
\* the run stay as written, and the run takes no further step.
C14_FailureWritesNothing ==
    [][/\ pc' = "failed" => files' = files
       /\ pc = "failed" => pc' \in {"idle", "fetch"}]_vars

\* C14 witness: a run has failed on a later category after it had completed
\* the pipeline of an earlier one, whose files stay as written
C14_Witness ==
    /\ pc = "failed"
    /\ \E k \in Categories :
          /\ stateFile[k] # preRun[k]
          /\ latest[k] # Absent
          /\ docs[k] = latest[k]

\* C15: when the email or the API key setting is empty, fetch_category
\* returns an empty list without raising and without issuing any HTTP
\* request, whatever the limit.
C15_NoKeysNoRequest ==
    ~has_keys =>
        /\ spc \in {"idle", "returned"}
        /\ fetched = 0
        /\ fetches = 0
        /\ attempt = 0
        /\ outcome = "none"

\* C15 witness: a call without credentials, asked for many jobs, has returned
C15_Witness == ~has_keys /\ spc = "returned" /\ q_limit > PageSize

\* C16: for each page _search_page makes at most 5 HTTP attempts, retries
\* only after an attempt failed, returns the first successful response, and
\* after 5 failed attempts the failure leaves search and fetch_category with
\* no further page requested.
C16_RetryBounded ==
    [][/\ attempt' <= 5
       /\ (spc = "throttle" /\ attempt >= 1) => outcome = "error"
       /\ (spc = "request" /\ outcome' = "ok") =>
             (spc' \in {"loop", "returned"} /\ attempt' = attempt)
       /\ (spc = "request" /\ outcome' = "error" /\ attempt = 5) => spc' = "raised"
       /\ (spc # "raised" /\ spc' = "raised") => (attempt = 5 /\ outcome' = "error")
       /\ spc = "raised" => (spc' = "raised" /\ fetches' = fetches)]_vars

\* C16 witness: the first page was served, the second page failed five
\* times and the failure has left fetch_category
C16_Witness == spc = "raised" /\ attempt = 5 /\ fetches = 2 /\ fetched > 0

C18_CappedAtLimit ==
    (spc = "returned" /\ q_limit >= 0) => fetched <= q_limit

\* C19: draining search terminates, by the end of the sequence or by the
\* failure of one page, after at most max(1, limit) page fetches.
C19_SearchFinite ==
    /\ [](fetches <= max(1, q_limit))
    /\ <>(spc \in {"returned", "raised"})

\* C19 witness: a search for more than one page of jobs that needed as many
\* page fetches as its limit
C19_Witness ==
    spc = "returned" /\ q_limit > PageSize /\ fetches = q_limit

\* C20: with per_min > 0 any two successive HTTP requests of one client,
\* first attempts and retries alike, are at least 60/per_min seconds apart:
\* sleep_if_needed runs before every attempt and returns no earlier than
\* 60/per_min after its previous return.
C20_RequestsSpaced ==
    [][/\ (spc # "request" /\ spc' = "request") => spc = "throttle"
       /\ (spc = "throttle" /\ spc' = "request" /\ per_min > 0
             /\ outcome # "none") => per_min * (now' - now) >= 60]_vars

\* C20 witness: a retry and then the next page have been sent through the
\* throttle of one client
C20_Witness ==
    /\ spc = "request"
    /\ per_min > 0
    /\ fetches = 2
    /\ attempt = 2
    /\ now >= SecondsPerMinute + 2 * ((SecondsPerMinute + per_min - 1) \div per_min)

\* some character of k is whitespace
HasWhitespace(k) == \E i \in 1..Len(k) : IsSpace(k[i])

\* the keyword as the claims render it: in double quotes when it contains
\* whitespace
Phrase(k) == IF HasWhitespace(k) THEN quoted(k) ELSE k

\* C21: for every keyword list of size <= 4, build_keyword_query returns the
\* keywords in input order joined by single spaces, each keyword that
\* contains whitespace wrapped in double quotes and every other unquoted.
C21_SmallListJoined ==
    (call.op = "build_keyword_query" /\ Len(call.arg) <= 4) =>
        call.ret = join([i \in 1..Len(call.arg) |-> Phrase(call.arg[i])])

\* C22: for every keyword list of size > 4, build_keyword_query returns only
\* the first keyword of the list, in double quotes when it contains
\* whitespace and unquoted otherwise; no other keyword contributes.
C22_LongListFirstOnly ==
    (call.op = "build_keyword_query" /\ Len(call.arg) > 4) =>
        call.ret = Phrase(call.arg[1])

\* the DatePosted values the upstream API supports
Buckets == {1, 3, 7, 30}

\* C23: normalize_days maps every integer d to a supported bucket: d <= 1
\* gives 1, 2..3 gives 3, 4..7 gives 7, d > 7 gives 30; the result is the
\* smallest bucket that is >= d, or 30 when d > 30.
C23_NormalizeDays ==
    call.op = "normalize_days" =>
        LET d == call.arg
            r == call.ret
        IN  /\ r \in Buckets
            /\ d <= 1 => r = 1
            /\ (2 <= d /\ d <= 3) => r = 3
            /\ (4 <= d /\ d <= 7) => r = 7
            /\ d > 7 => r = 30
            /\ IF d > 30 THEN r = 30
               ELSE r >= d /\ \A b \in Buckets : b >= d => r <= b

\* C23 witness: a window longer than the largest bucket was clamped to it
C23_Witness == call.op = "normalize_days" /\ call.arg > 30 /\ call.ret = 30

\* the lengths of the prefixes of text that end where a whitespace character
\* stands among the first lim characters
Boundaries(text, lim) == {i \in 0..(lim - 1) : IsSpace(text[i + 1])}

\* C26: _trim(text, limit) returns text unchanged when its length is
\* <= limit; otherwise the longest prefix of text that ends at a whitespace
\* boundary at or before position limit, followed by the ellipsis, splitting
\* a word only when the first limit characters contain no whitespace.
C26_TrimAtWhitespace ==
    call.op = "_trim" =>
        LET text == call.arg[1]
            lim == call.arg[2]
            B == Boundaries(text, lim)
        IN  IF Len(text) <= lim THEN call.ret = text
            ELSE IF B = {} THEN call.ret = SubSeq(text, 1, lim) \o Ellipsis
            ELSE call.ret =
                   SubSeq(text, 1, CHOOSE i \in B : \A j \in B : j <= i) \o Ellipsis

\* C24: map_usajobs_item is total: whichever fields of the raw record are
\* absent, null or empty, it returns a Job and never raises.
C24_MapTotal == call.op = "map_usajobs_item" => ~call.ret.raised

\* C25: every Job map_usajobs_item returns carries the safe defaults:
\* locations is the non-empty upstream names in upstream order or
\* ["Various"], never empty; url is the first upstream URI present or the
\* base URL; posted_at is the parsed date or the current time; title and
\* organization are "" when missing.
C25_SafeDefaults ==
    (call.op = "map_usajobs_item" /\ ~call.ret.raised) =>
        LET item == call.arg
            job == call.ret.job
            names == IF item.locs.t = "list"
                     THEN SelectSeq(item.locs.v, LAMBDA l : l # <<>>) ELSE <<>>
        IN  /\ job.locations # <<>>
            /\ job.locations = IF names # <<>> THEN names ELSE <<Various>>
            /\ job.url =
                 IF item.apply.t = "list" /\ item.apply.v[1] # <<>>
                 THEN item.apply.v[1]
                 ELSE IF item.posuri.t = "str" THEN item.posuri.v ELSE BaseUrl
            /\ job.posted_at =
                 IF item.posted = Str(DateText) THEN Utc1 ELSE call.prev
            /\ item.title.t \in {"missing", "null"} => job.title = <<>>
            /\ item.title.t = "str" => job.title = item.title.v
            /\ item.org.t = "missing" => job.organization = <<>>

\* C25 witness: a record without descriptor came back with every default
C25_Witness ==
    /\ call.op = "map_usajobs_item"
    /\ call.arg.desc = "missing"
    /\ ~call.ret.raised
    /\ call.ret.job.locations = <<Various>>
    /\ call.ret.job.url = BaseUrl
    /\ call.ret.job.posted_at = call.prev
    /\ call.ret.job.title = <<>>

\* C27: when upstream holds N items in a stable order and serves page p of
\* size s as the items at positions (p-1)*s+1 .. p*s, search with limit
\* L >= 1 yields exactly the first min(L, N) items, each once and in
\* upstream order.
C27_PagingExact ==
    (spc = "returned" /\ stock >= 0 /\ q_limit >= 1) =>
        yielded = [i \in 1..min(q_limit, stock) |-> i]

\* no two entries of js have the same job_id
DistinctIds(js) ==
    \A i, j \in 1..Len(js) : js[i].job_id = js[j].job_id => i = j

\* C28: the new_jobs list of compute_new_jobs holds at most one job per
\* job_id, also when the input holds several jobs with the same job_id, so
\* the new-jobs file never lists one posting twice.
C28_NewJobsDistinct ==
    /\ pc = "computed" => DistinctIds(new_jobs)
    /\ \A k \in Categories : newFile[k].kind = "array" => DistinctIds(newFile[k].items)

\* the job ids a snapshot file lists
FileIds(f) == IF f.kind = "array" THEN {f.items[i].job_id : i \in 1..Len(f.items)} ELSE {}

\* C29: in a non-dry-run scrape save_known_ids runs only after write_latest,
\* write_history_snapshot and write_new_jobs have completed: wherever the
\* run stops, every job_id it added to the persisted known ids is the id of
\* a job in the new-jobs file written by this run.
C29_SaveAfterWrites ==
    [][pc \notin {"idle", "failed", "crashed"} =>
          /\ \A k \in Categories :
                (PersistedIds(stateFile'[k]) \ PersistedIds(preRun[k]))
                    \subseteq FileIds(newFile'[k])
          /\ stateFile' # stateFile =>
                /\ ~dry_run
                /\ latest[cur] # Absent
                /\ history[cur][today] # Absent
                /\ newFile[cur] = JsonArray(to_dicts(new_jobs))]_vars

\* C29 witness: the ids of a run have just been saved, after its files
C29_Witness ==
    /\ pc = "sync"
    /\ PersistedIds(stateFile[cur]) \ PersistedIds(preRun[cur]) # {}
    /\ PersistedIds(preRun[cur]) # {}

\* C30: across any sequence of send_detailed_discord_notifications runs over
\* the latest files, in which any single post may fail part-way through a
\* category, no job is posted to Discord more than once.
C30_PostedOnce == \A k \in Categories, id \in Ids : posts[k][id] <= 1
====
